---- MODULE Spec2Model ----
(***************************************************************************)
(* Multi-tenant task API: the four task handlers (create, list, update,    *)
(* delete) running as independent, concurrently scheduled invocations      *)
(* against one shared single-table store and one event bus; the token      *)
(* authorizer in front of them; the event fan-out handler behind them.     *)
(*                                                                         *)
(* Every handler is cut at its accesses to shared state (store, bus,       *)
(* clock): the code between two accesses is local to the invocation and is *)
(* folded into the step that ends with the next access.                    *)
(***************************************************************************)
EXTENDS Integers, Sequences, FiniteSets, TLC

VARIABLES
    table,      \* the DynamoDB table: a set of items, at most one per (PK, SK)
    events,     \* entries accepted by the event bus (put_events)
    clock,      \* the last reading of datetime.utcnow(), in ticks
    usedIds,    \* uuid4 values handed out so far
    inv,        \* the invocations: request, position, locals, response
    deleted,    \* history: keys (PK, SK) for which a Delete answered 200
    created,    \* history: (tenant_id, task_id) of every task a Create stored
    world,      \* the clients of this behaviour and the requests they send
    jwks,       \* the authorizer process's cache of get_jwks()
    auth,       \* the last authorizer invocation: event, time, policy
    archive,    \* the S3 bucket: the keys of the objects put
    fan         \* the fan-out invocations: batch, position, results

vars == <<table, events, clock, usedIds, inv, deleted, created, world,
          jwks, auth, archive, fan>>

\* the state of the task handlers, of the authorizer, of the fan-out handler
taskVars == <<events, usedIds, inv, deleted, created>>
authVars == <<jwks, auth>>
fanVars == <<archive, fan>>

----------------------------------------------------------------------------
(* Bounds *)

MaxInv == 2         \* invocations in one behaviour
MaxClock == 2       \* last tick of the clock
MaxIds == 2         \* size of the pool uuid4 draws from

Slots == 1..MaxInv
IdPool == {"t" \o ToString(n) : n \in 1..MaxIds}

----------------------------------------------------------------------------
(* Strings *)

\* a text of n characters
RECURSIVE Rep(_)
Rep(n) ==
    IF n = 0 THEN ""
    ELSE IF n % 2 = 0 THEN LET half == Rep(n \div 2) IN half \o half
    ELSE "a" \o Rep(n - 1)

Ascii == "#-0123456789:ABCDEFGHIJKLMNOPQRSTUVWXYZ_abcdefghijklmnopqrstuvwxyz"

CharRank(c) == CHOOSE k \in 1..Len(Ascii) : SubSeq(Ascii, k, k) = c

\* Python / DynamoDB ordering of strings: by code point, shorter prefix first
RECURSIVE StrLess(_, _)
StrLess(a, b) ==
    IF Len(b) = 0 THEN FALSE
    ELSE IF Len(a) = 0 THEN TRUE
    ELSE LET ca == SubSeq(a, 1, 1)
             cb == SubSeq(b, 1, 1)
         IN  IF ca = cb THEN StrLess(SubSeq(a, 2, Len(a)), SubSeq(b, 2, Len(b)))
             ELSE CharRank(ca) < CharRank(cb)

StrLeq(a, b) == a = b \/ StrLess(a, b)

\* Key(...).begins_with(prefix)
BeginsWith(s, p) == Len(s) >= Len(p) /\ SubSeq(s, 1, Len(p)) = p

\* datetime.utcnow().isoformat() + 'Z' at tick n
Iso(n) == "2026-11-01T00:00:0" \o ToString(n) \o "Z"

\* the readings datetime.utcnow() can give next: time has stood still since
\* the last reading, or has moved on
Times == {t \in {clock, clock + 1} : t <= MaxClock}

\* Python's None where a string is expected
None == "<None>"

\* dict.get(key, default)
DictGet(d, k, default) == IF k \in DOMAIN d THEN d[k] ELSE default

----------------------------------------------------------------------------
(* The store *)

\* the partition key without the tenant in it
TenantPK_Shared(tenant_id) == "TENANT#"

TenantPK(tenant_id) == "TENANT#" \o tenant_id

\* a sort key that is the path id as it came
TaskSK_Bare(task_id) == task_id

TaskSK(task_id) == "TASK#" \o task_id

StatusSK(status, time) == "STATUS#" \o status \o "#" \o time

HasKey(it, pk, sk) == it.PK = pk /\ it.SK = sk

GetItem(t, pk, sk) == {it \in t : HasKey(it, pk, sk)}

PutItem(t, item) == {it \in t : ~HasKey(it, item.PK, item.SK)} \cup {item}

DeleteItem(t, pk, sk) == {it \in t : ~HasKey(it, pk, sk)}

\* update_item with a SET expression and no ConditionExpression: the item is
\* created from its key when it does not exist
UpdatedItem(t, pk, sk, sets) ==
    LET old == IF GetItem(t, pk, sk) = {}
               THEN [PK |-> pk, SK |-> sk]
               ELSE CHOOSE it \in GetItem(t, pk, sk) : TRUE
    IN  sets @@ old

UpdateItem(t, pk, sk, sets) == PutItem(t, UpdatedItem(t, pk, sk, sets))

----------------------------------------------------------------------------
(* Requests *)

\* The authorizer context of a request: tenant_id, user_id, role
Alice == [tenant_id |-> "acme",   user_id |-> "alice", role |-> "ADMIN"]
Bob   == [tenant_id |-> "acme",   user_id |-> "bob",   role |-> "MEMBER"]
Carol == [tenant_id |-> "acme",   user_id |-> "carol", role |-> "VIEWER"]
Dave  == [tenant_id |-> "globex", user_id |-> "dave",  role |-> "ADMIN"]
Erin  == [tenant_id |-> "globex", user_id |-> "erin",  role |-> "MEMBER"]

Callers == {Alice, Bob, Carol, Dave, Erin}

NoCaller == [tenant_id |-> "", user_id |-> "", role |-> ""]

\* event['body']: text that json.loads accepts (valid) with the object it
\* yields, text it rejects with JSONDecodeError, or None (a request without a
\* body), on which it raises TypeError
Json(obj) == [present |-> TRUE, valid |-> TRUE, json |-> obj]
Malformed == [present |-> TRUE, valid |-> FALSE, json |-> <<>>]
NoBody == [present |-> FALSE, valid |-> FALSE, json |-> <<>>]

\* the answer to a body that does not parse: "except json.JSONDecodeError"
\* for text, "except Exception" for None
ParseError(body) == IF body.present THEN 400 ELSE 500

\* bodies of POST /tasks: values in and out of the enumerations
CreateBodies ==
    { Json([title |-> "Fix bug", status |-> "DONE", assigned_to |-> "bob"]),
      Json([title |-> "Ship v1", status |-> "BOGUS"]),
      Json([title |-> "Ship v1", priority |-> "ASAP"]),
      Json([description |-> "no title"]),
      Malformed,
      NoBody }

\* bodies of POST /tasks: texts at and past the length limits
LongBodies ==
    { Json([title |-> Rep(200)]),
      Json([title |-> Rep(201)]),
      Json([title |-> "Ship v1", description |-> Rep(1001)]),
      Json([title |-> ""]) }

\* bodies of PUT /tasks/{id}
UpdateBodies ==
    { Json([status |-> "DONE"]),
      Json([title |-> "Ship v2", description |-> "soon"]),
      Json([status |-> "BOGUS"]),
      Json([priority |-> "ASAP", assigned_to |-> "carol"]),
      Json([title |-> "Moved", task_id |-> "t9", tenant_id |-> "globex",
            created_by |-> "erin", created_at |-> Iso(9)]),
      Json(<<>>),
      Malformed,
      NoBody }

----------------------------------------------------------------------------
(* Invocations *)

NoItem == <<>>

Idle ==
    [ op |-> "none", caller |-> NoCaller, id |-> "", body |-> NoBody,
      params |-> <<>>, pc |-> "idle",
      existing |-> NoItem,      \* the item get_item returned, if any
      now |-> "",               \* the timestamp this invocation took
      item |-> NoItem,          \* task_item (create), expression values (update)
      status |-> 0,             \* statusCode of the response
      out |-> <<>>,             \* the tasks in the response body
      cursor |-> <<>>,          \* pagination.last_key of a List response
      reads |-> 0,              \* store reads this invocation has made
      writes |-> 0 ]            \* store writes and deletes it has made

Begin(op, c, id, body, params) ==
    [Idle EXCEPT !.op = op, !.caller = c, !.id = id, !.body = body,
                 !.params = params, !.pc = "start"]

Respond(r, code, tasks) ==
    [r EXCEPT !.pc = "done", !.status = code, !.out = tasks]

\* invocations are numbered in the order they arrive
IsNext(i) ==
    /\ inv[i].pc = "idle"
    /\ \A j \in Slots : j < i => inv[j].pc # "idle"

Running(i, pc) == inv[i].pc = pc

\* the response body built from a stored item (internal keys left out)
ResponseTask(it) ==
    [ task_id |-> it.task_id,
      tenant_id |-> it.tenant_id,
      title |-> it.title,
      description |-> DictGet(it, "description", ""),
      status |-> it.status,
      priority |-> DictGet(it, "priority", "MEDIUM"),
      assigned_to |-> DictGet(it, "assigned_to", ""),
      created_by |-> DictGet(it, "created_by", ""),
      created_at |-> it.created_at,
      updated_at |-> it.updated_at ]

\* the subscripted reads of ResponseTask raise KeyError when one is missing
ResponseKeys == {"task_id", "tenant_id", "title", "status", "created_at", "updated_at"}

----------------------------------------------------------------------------
(* Create: POST /tasks *)

\* task_item of create_task.handler
TaskItem(c, body, task_id, current_time) ==
    [ PK |-> TenantPK(c.tenant_id),
      SK |-> TaskSK(task_id),
      GSI1PK |-> TenantPK(c.tenant_id),
      GSI1SK |-> StatusSK(DictGet(body, "status", "OPEN"), current_time),
      task_id |-> task_id,
      tenant_id |-> c.tenant_id,
      title |-> body.title,
      description |-> DictGet(body, "description", ""),
      status |-> DictGet(body, "status", "OPEN"),
      priority |-> DictGet(body, "priority", "MEDIUM"),
      assigned_to |-> DictGet(body, "assigned_to", ""),
      created_by |-> c.user_id,
      created_at |-> current_time,
      updated_at |-> current_time,
      entity_type |-> "TASK" ]

\* the input check create_task.handler makes: "not body.get('title')"
CreateRejects(body) == DictGet(body, "title", "") = ""

TitleLimit == 200
DescriptionLimit == 1000
valid_statuses == {"OPEN", "IN_PROGRESS", "DONE", "CANCELLED"}
valid_priorities == {"LOW", "MEDIUM", "HIGH", "URGENT"}

\* utils.validate_task_data, which no handler calls: TRUE when it returns an
\* error message, FALSE when it returns None
validate_task_data(task_data) ==
    \/ DictGet(task_data, "title", "") = ""
    \/ Len(DictGet(task_data, "title", "")) > TitleLimit
    \/ Len(DictGet(task_data, "description", "")) > DescriptionLimit
    \/ DictGet(task_data, "status", "OPEN") \notin valid_statuses
    \/ DictGet(task_data, "priority", "MEDIUM") \notin valid_priorities

\* event_detail of create_task.handler
EventDetail(it) ==
    [ task_id |-> it.task_id, tenant_id |-> it.tenant_id, title |-> it.title,
      created_by |-> it.created_by, created_at |-> it.created_at ]

\* parse, check, draw the id and the timestamp, build the item
CreateStart(i, c, b) ==
    /\ IsNext(i)
    /\ LET r == Begin("create", c, "", b, <<>>)
       IN  \/ /\ ~b.valid
              /\ inv' = [inv EXCEPT ![i] = Respond(r, ParseError(b), <<>>)]
              /\ UNCHANGED <<usedIds, clock>>
           \/ /\ b.valid /\ CreateRejects(b.json)
              /\ inv' = [inv EXCEPT ![i] = Respond(r, 400, <<>>)]
              /\ UNCHANGED <<usedIds, clock>>
           \/ /\ b.valid /\ ~CreateRejects(b.json)
              /\ \E task_id \in IdPool \ usedIds, t \in Times :
                    /\ usedIds' = usedIds \cup {task_id}
                    /\ clock' = t
                    /\ inv' = [inv EXCEPT ![i] =
                          [r EXCEPT !.pc = "put", !.id = task_id, !.now = Iso(t),
                                    !.item = TaskItem(c, b.json, task_id, Iso(t))]]
    /\ UNCHANGED <<table, events, deleted, created, world, authVars, fanVars>>

\* table.put_item(Item=task_item)
CreatePut(i) ==
    /\ Running(i, "put")
    /\ table' = PutItem(table, inv[i].item)
    /\ inv' = [inv EXCEPT ![i].pc = "publish", ![i].writes = @ + 1]
    /\ created' = created \cup {<<inv[i].item.tenant_id, inv[i].item.task_id>>}
    /\ UNCHANGED <<events, clock, usedIds, deleted, world, authVars, fanVars>>

\* what the handler answers once put_events has returned or raised
CreateOutcome(r, published) ==
    IF published
    THEN Respond(r, 201, <<ResponseTask(r.item)>>)
    ELSE Respond(r, 500, <<>>)

\* eventbridge.put_events(...) returns, then the 201 response
CreatePublish(i) ==
    /\ Running(i, "publish")
    /\ events' = events \cup {EventDetail(inv[i].item)}
    /\ inv' = [inv EXCEPT ![i] = CreateOutcome(inv[i], TRUE)]
    /\ UNCHANGED <<table, clock, usedIds, deleted, created, world, authVars, fanVars>>

\* eventbridge.put_events(...) raises: the handler's "except Exception"
CreatePublishFails(i) ==
    /\ Running(i, "publish")
    /\ inv' = [inv EXCEPT ![i] = CreateOutcome(inv[i], FALSE)]
    /\ UNCHANGED <<table, events, clock, usedIds, deleted, created, world, authVars, fanVars>>

----------------------------------------------------------------------------
(* Permission policy *)

NoOwner == ""       \* existing_task.get('created_by') of an item without one

\* utils.check_user_permissions
check_user_permissions(user_role, action, resource_owner, current_user) ==
    IF user_role = "ADMIN" THEN TRUE
    ELSE IF user_role = "MEMBER"
         THEN IF action \in {"create", "read"} THEN TRUE
              ELSE IF action = "update" /\ resource_owner = current_user THEN TRUE
              ELSE FALSE
         ELSE FALSE

\* the ownership comparison the wrong way round
UpdateDenied_Inverted(user_role, resource_owner, user_id) ==
    user_role = "MEMBER" /\ resource_owner = user_id

\* the check update_task.handler makes in place of the policy
UpdateDenied(user_role, resource_owner, user_id) ==
    user_role = "MEMBER" /\ resource_owner # user_id

\* the check delete_task.handler makes
DeleteDenied(user_role) == user_role # "ADMIN"

----------------------------------------------------------------------------
(* Update: PUT /tasks/{id} *)

\* the list of fields with an attribute of the record's origin in it
updatable_fields_Wide ==
    {"title", "description", "status", "priority", "assigned_to", "created_by"}

updatable_fields == {"title", "description", "status", "priority", "assigned_to"}

\* an update expression that sets the fields and leaves GSI1SK as it is
UpdateExpression_NoRekey(body, time) ==
    LET fields == {f \in updatable_fields : f \in DOMAIN body}
    IN  [a \in {"updated_at"} \cup fields |-> IF a = "updated_at" THEN time ELSE body[a]]

\* expression_values of update_task.handler, by the attribute each one sets
UpdateExpression(body, time) ==
    LET fields == {f \in updatable_fields : f \in DOMAIN body}
        gsi == IF "status" \in DOMAIN body THEN {"GSI1SK"} ELSE {}
    IN  [a \in {"updated_at"} \cup fields \cup gsi |->
            IF a = "updated_at" THEN time
            ELSE IF a = "GSI1SK" THEN StatusSK(body.status, time)
            ELSE body[a]]

\* parse the body, get_item, existence and permission checks
UpdateLookup(r, t) ==
    LET c == r.caller
        found == GetItem(t, TenantPK(c.tenant_id), TaskSK(r.id))
        existing_task == CHOOSE it \in found : TRUE
    IN  IF ~r.body.valid THEN Respond(r, ParseError(r.body), <<>>)
        ELSE IF found = {} THEN [Respond(r, 404, <<>>) EXCEPT !.reads = @ + 1]
        ELSE IF UpdateDenied(c.role, DictGet(existing_task, "created_by", NoOwner), c.user_id)
             THEN [Respond(r, 403, <<>>) EXCEPT !.reads = @ + 1, !.existing = existing_task]
             ELSE [r EXCEPT !.pc = "build", !.reads = @ + 1, !.existing = existing_task]

UpdateGet(i, c, id, b) ==
    /\ IsNext(i)
    /\ inv' = [inv EXCEPT ![i] = UpdateLookup(Begin("update", c, id, b, <<>>), table)]
    /\ UNCHANGED <<table, events, clock, usedIds, deleted, created, world, authVars, fanVars>>

\* take the timestamp and build the update expression
UpdateBuild(i) ==
    /\ Running(i, "build")
    /\ \E t \in Times :
          /\ clock' = t
          /\ inv' = [inv EXCEPT ![i].pc = "write", ![i].now = Iso(t),
                                ![i].item = UpdateExpression(inv[i].body.json, Iso(t))]
    /\ UNCHANGED <<table, events, usedIds, deleted, created, world, authVars, fanVars>>

\* the response built from response['Attributes'] (ALL_NEW); a missing
\* attribute raises KeyError, which the handler answers with 400
UpdateResponse(r, updated_task) ==
    IF ResponseKeys \subseteq DOMAIN updated_task
    THEN Respond(r, 200, <<ResponseTask(updated_task)>>)
    ELSE Respond(r, 400, <<>>)

\* table.update_item(...), then the response
UpdateWrite(i) ==
    LET r == inv[i]
        pk == TenantPK(r.caller.tenant_id)
        sk == TaskSK(r.id)
    IN  /\ Running(i, "write")
        /\ table' = UpdateItem(table, pk, sk, r.item)
        /\ inv' = [inv EXCEPT ![i] =
              UpdateResponse([r EXCEPT !.writes = @ + 1], UpdatedItem(table, pk, sk, r.item))]
        /\ UNCHANGED <<events, clock, usedIds, deleted, created, world, authVars, fanVars>>

----------------------------------------------------------------------------
(* Delete: DELETE /tasks/{id} *)

\* get_item and the existence check first, the role check after them
DeleteLookup_ReadFirst(r, t) ==
    LET c == r.caller
        found == GetItem(t, TenantPK(c.tenant_id), TaskSK(r.id))
    IN  IF found = {} THEN [Respond(r, 404, <<>>) EXCEPT !.reads = @ + 1]
        ELSE IF DeleteDenied(c.role) THEN [Respond(r, 403, <<>>) EXCEPT !.reads = @ + 1]
        ELSE [r EXCEPT !.pc = "del", !.reads = @ + 1,
                       !.existing = CHOOSE it \in found : TRUE]

\* the role check, then get_item and the existence check
DeleteLookup(r, t) ==
    LET c == r.caller
        found == GetItem(t, TenantPK(c.tenant_id), TaskSK(r.id))
    IN  IF DeleteDenied(c.role) THEN Respond(r, 403, <<>>)
        ELSE IF found = {} THEN [Respond(r, 404, <<>>) EXCEPT !.reads = @ + 1]
        ELSE [r EXCEPT !.pc = "del", !.reads = @ + 1,
                       !.existing = CHOOSE it \in found : TRUE]

DeleteGet(i, c, id) ==
    /\ IsNext(i)
    /\ inv' = [inv EXCEPT ![i] = DeleteLookup(Begin("delete", c, id, NoBody, <<>>), table)]
    /\ UNCHANGED <<table, events, clock, usedIds, deleted, created, world, authVars, fanVars>>

\* table.delete_item(...), then the 200 response
DeleteDel(i) ==
    LET r == inv[i]
        pk == TenantPK(r.caller.tenant_id)
        sk == TaskSK(r.id)
    IN  /\ Running(i, "del")
        /\ table' = DeleteItem(table, pk, sk)
        /\ inv' = [inv EXCEPT ![i] = Respond([r EXCEPT !.writes = @ + 1], 200, <<>>)]
        /\ deleted' = deleted \cup {<<pk, sk>>}
        /\ UNCHANGED <<events, clock, usedIds, created, world, authVars, fanVars>>

----------------------------------------------------------------------------
(* List: GET /tasks *)

Digits == "0123456789"

IsDigit(c) == \E k \in 1..Len(Digits) : SubSeq(Digits, k, k) = c

DigitVal(c) == (CHOOSE k \in 1..Len(Digits) : SubSeq(Digits, k, k) = c) - 1

AllDigits(s) == Len(s) > 0 /\ \A k \in 1..Len(s) : IsDigit(SubSeq(s, k, k))

RECURSIVE NatVal(_)
NatVal(s) ==
    IF Len(s) = 0 THEN 0
    ELSE 10 * NatVal(SubSeq(s, 1, Len(s) - 1)) + DigitVal(SubSeq(s, Len(s), Len(s)))

\* int(text) raises ValueError unless the text is a decimal integer
IsIntText(s) ==
    \/ AllDigits(s)
    \/ Len(s) > 1 /\ SubSeq(s, 1, 1) = "-" /\ AllDigits(SubSeq(s, 2, Len(s)))

IntVal(s) ==
    IF SubSeq(s, 1, 1) = "-" THEN 0 - NatVal(SubSeq(s, 2, Len(s))) ELSE NatVal(s)

DefaultLimit == 50
LimitCap == 100

\* the Limit handed to table.query
QueryLimit(params) ==
    LET limit == IF "limit" \in DOMAIN params THEN IntVal(params.limit) ELSE DefaultLimit
    IN  IF limit > LimitCap THEN LimitCap ELSE limit

\* the query the handler issues: index, partition key, sort-key prefix
QueryIndex(params) == IF "status" \in DOMAIN params THEN "GSI1" ELSE "table"

QueryPrefix(params) ==
    IF "status" \in DOMAIN params THEN "STATUS#" \o params.status \o "#" ELSE "TASK#"

\* a last_key that does not decode is handed to the query all the same
HasStartKey_Unchecked(params) == "last_key" \in DOMAIN params

\* ExclusiveStartKey: the decoded last_key, when there is one and it decodes
HasStartKey(params) == "last_key" \in DOMAIN params /\ params.last_key.valid

\* the items a query's key condition selects
Matching(t, index, pk, prefix) ==
    IF index = "GSI1"
    THEN {it \in t : /\ {"GSI1PK", "GSI1SK"} \subseteq DOMAIN it
                     /\ it.GSI1PK = pk
                     /\ BeginsWith(it.GSI1SK, prefix)}
    ELSE {it \in t : it.PK = pk /\ BeginsWith(it.SK, prefix)}

\* the key of an item in an index, and the order of the index
IndexKey(index, it) ==
    IF index = "GSI1"
    THEN [PK |-> it.PK, SK |-> it.SK, GSI1PK |-> it.GSI1PK, GSI1SK |-> it.GSI1SK]
    ELSE [PK |-> it.PK, SK |-> it.SK]

KeyLess(index, a, b) ==
    IF index = "GSI1"
    THEN \/ StrLess(a.GSI1SK, b.GSI1SK)
         \/ a.GSI1SK = b.GSI1SK /\ StrLess(a.SK, b.SK)
    ELSE StrLess(a.SK, b.SK)

\* ScanIndexForward=False: greatest key first
RECURSIVE Descending(_, _)
Descending(index, S) ==
    IF S = {} THEN <<>>
    ELSE LET top == CHOOSE a \in S : \A b \in S \ {a} : KeyLess(index, b, a)
         IN  <<top>> \o Descending(index, S \ {top})

\* the store rejects a Limit below 1 and a start key that is not a key of the
\* index inside the key condition
QueryRejected(index, pk, prefix, limit, hasStart, start) ==
    \/ limit < 1
    \/ /\ hasStart
       /\ \/ DOMAIN start # DOMAIN IndexKey(index, [PK |-> "", SK |-> "", GSI1PK |-> "", GSI1SK |-> ""])
          \/ IF index = "GSI1"
             THEN start.GSI1PK # pk \/ ~BeginsWith(start.GSI1SK, prefix)
             ELSE start.PK # pk \/ ~BeginsWith(start.SK, prefix)

\* a query that resumes at the start key instead of after it
QueryItems_Inclusive(t, index, pk, prefix, limit, hasStart, start) ==
    LET all == Matching(t, index, pk, prefix)
        rest == IF hasStart THEN {it \in all : ~KeyLess(index, start, it)} ELSE all
        sorted == Descending(index, rest)
    IN  SubSeq(sorted, 1, IF Len(sorted) < limit THEN Len(sorted) ELSE limit)

\* response['Items']: at most limit items after the start key
QueryItems(t, index, pk, prefix, limit, hasStart, start) ==
    LET all == Matching(t, index, pk, prefix)
        rest == IF hasStart THEN {it \in all : KeyLess(index, it, start)} ELSE all
        sorted == Descending(index, rest)
    IN  SubSeq(sorted, 1, IF Len(sorted) < limit THEN Len(sorted) ELSE limit)

\* the tasks list of the response: only items marked as task entities
RECURSIVE TasksOf(_)
TasksOf(items) ==
    IF items = <<>> THEN <<>>
    ELSE IF DictGet(Head(items), "entity_type", "") = "TASK"
         THEN <<ResponseTask(Head(items))>> \o TasksOf(Tail(items))
         ELSE TasksOf(Tail(items))

\* the whole handler: one query, nothing written
ListResult(r, t) ==
    LET p == r.params
        pk == TenantPK(r.caller.tenant_id)
        index == QueryIndex(p)
        prefix == QueryPrefix(p)
        limit == QueryLimit(p)
        hasStart == HasStartKey(p)
        start == p.last_key.json
        items == QueryItems(t, index, pk, prefix, limit, hasStart, start)
    IN  IF "limit" \in DOMAIN p /\ ~IsIntText(p.limit) THEN Respond(r, 400, <<>>)
        ELSE IF QueryRejected(index, pk, prefix, limit, hasStart, start)
             THEN [Respond(r, 500, <<>>) EXCEPT !.reads = @ + 1]
             ELSE [Respond(r, 200, TasksOf(items)) EXCEPT
                      !.reads = @ + 1,
                      \* LastEvaluatedKey: present when the query stopped at Limit
                      !.cursor = IF Len(items) = limit
                                 THEN Json(IndexKey(index, items[Len(items)]))
                                 ELSE <<>>]

ListTasks(i, c, p) ==
    /\ IsNext(i)
    /\ inv' = [inv EXCEPT ![i] = ListResult(Begin("list", c, "", NoBody, p), table)]
    /\ UNCHANGED <<table, events, clock, usedIds, deleted, created, world, authVars, fanVars>>

----------------------------------------------------------------------------
(* The event fan-out handler: one invocation per delivered batch *)

\* a delivered record: its source and its detail, which is a dict, is absent,
\* or is null
Record(source, kind, obj) == [source |-> source, detail |-> [kind |-> kind, obj |-> obj]]

TaskCreated(detail) == Record("saas.tasks", "dict", detail)

\* record.get('detail', {}): the dict, {} when the key is absent, None when
\* the record says null
DetailOf(record) == IF record.detail.kind = "dict" THEN record.detail.obj ELSE <<>>

\* the projections of one event
AnalyticsItem(d) ==
    [ PK |-> "TENANT#" \o d.tenant_id,
      SK |-> "ANALYTICS#" \o d.created_at \o "#" \o d.task_id,
      GSI1PK |-> "ANALYTICS#" \o d.tenant_id,
      GSI1SK |-> "TASK_CREATED#" \o d.created_at,
      event_type |-> "TASK_CREATED",
      task_id |-> d.task_id,
      tenant_id |-> d.tenant_id,
      created_by |-> DictGet(d, "created_by", None),
      timestamp |-> d.created_at,
      entity_type |-> "ANALYTICS" ]

\* metrics_item: the counters are the literal 1, whatever is stored
MetricsItem(d) ==
    [ PK |-> "TENANT#" \o d.tenant_id,
      SK |-> "METRICS#TASKS",
      total_tasks |-> 1,
      tasks_this_month |-> 1,
      last_task_created |-> d.created_at,
      entity_type |-> "METRICS" ]

NotificationItem(d, now) ==
    [ PK |-> "TENANT#" \o d.tenant_id,
      SK |-> "NOTIFICATION#" \o now \o "#" \o d.task_id,
      notification_type |-> "TASK_CREATED",
      task_id |-> d.task_id,
      tenant_id |-> d.tenant_id,
      title |-> d.title,
      created_by |-> DictGet(d, "created_by", None),
      status |-> "SENT",
      channels |-> <<"email", "slack">>,
      entity_type |-> "NOTIFICATION" ]

AuditItem(d) ==
    [ PK |-> "TENANT#" \o d.tenant_id,
      SK |-> "AUDIT#" \o d.created_at \o "#" \o d.task_id,
      GSI1PK |-> "AUDIT#" \o d.tenant_id,
      GSI1SK |-> "TASK_CREATED#" \o d.created_at,
      action |-> "TASK_CREATED",
      resource_type |-> "TASK",
      resource_id |-> d.task_id,
      tenant_id |-> d.tenant_id,
      user_id |-> DictGet(d, "created_by", None),
      timestamp |-> d.created_at,
      details |-> [task_title |-> d.title, event_source |-> "task_management_api"],
      entity_type |-> "AUDIT" ]

\* audit_key: the folder is the YYYY-MM of created_at
AuditKey(d) ==
    "audit-logs/" \o d.tenant_id \o "/" \o SubSeq(d.created_at, 1, 7) \o "/" \o d.task_id \o ".json"

\* s3.put_object: one object per key
PutObject(bucket, key, body) == {o \in bucket : o.Key # key} \cup {[Key |-> key, Body |-> body]}

\* an invocation: the batch, the index of the record it works on, the detail
\* of that record, the results of its projections so far, processed_events,
\* the number of store and archive calls that raised, the response; and, as
\* history, the store and archive calls it has made
NoResult == [analytics |-> "", notifications |-> "", audit |-> ""]

FanIdle ==
    [ pc |-> "idle", batch |-> <<>>, k |-> 0, detail |-> <<>>, cur |-> NoResult,
      processed_events |-> <<>>, failures |-> 0, response |-> <<>>, calls |-> <<>> ]

\* the call at the invocation's position has returned (ok) or raised
Called(r, ok) == [r EXCEPT !.calls = Append(@, [k |-> r.k, op |-> r.pc, ok |-> ok])]

\* the return statements of the handler: the results on 200, the count on 500
FanReturn(r, code) ==
    [r EXCEPT !.pc = "done",
              !.response = IF code = 200
                           THEN [statusCode |-> 200,
                                 processed_events |-> Len(r.processed_events),
                                 results |-> r.processed_events]
                           ELSE [statusCode |-> 500,
                                 processed_events |-> Len(r.processed_events)]]

\* The code between two store accesses. Each projection reads the keys it
\* needs from the detail inside its own try: a missing key makes that
\* projection return an error and the handler goes on to the next one.
RECURSIVE EnterRecord(_)

\* processed_events.append(...), then the next record of the loop
NextRecord(r) ==
    EnterRecord([r EXCEPT !.k = @ + 1,
                          !.cur = NoResult,
                          !.processed_events =
                              Append(@, [ task_id |-> DictGet(r.detail, "task_id", None),
                                          tenant_id |-> DictGet(r.detail, "tenant_id", None),
                                          analytics |-> r.cur.analytics,
                                          notifications |-> r.cur.notifications,
                                          audit |-> r.cur.audit ])])

EnterAudit(r) ==
    IF {"tenant_id", "task_id", "created_at", "title"} \subseteq DOMAIN r.detail
    THEN [r EXCEPT !.pc = "audit"]
    ELSE NextRecord([r EXCEPT !.cur.audit = "error"])

EnterNotify(r) ==
    IF {"tenant_id", "task_id", "title"} \subseteq DOMAIN r.detail
    THEN [r EXCEPT !.pc = "notify"]
    ELSE EnterAudit([r EXCEPT !.cur.notifications = "error"])

EnterAnalytics(r) ==
    IF {"tenant_id", "task_id", "created_at"} \subseteq DOMAIN r.detail
    THEN [r EXCEPT !.pc = "analytics"]
    ELSE EnterNotify([r EXCEPT !.cur.analytics = "error"])

\* a loop body without the test of the source
EnterRecord_AnySource(r) ==
    IF r.k > Len(r.batch) THEN FanReturn(r, 200)
    ELSE IF r.batch[r.k].detail.kind = "null" THEN FanReturn(r, 500)
    ELSE EnterAnalytics([r EXCEPT !.detail = DetailOf(r.batch[r.k])])

\* the head of the loop body: records of other sources are skipped; on a null
\* detail the first detail.get raises, which the try around the whole loop
\* catches
EnterRecord(r) ==
    IF r.k > Len(r.batch) THEN FanReturn(r, 200)
    ELSE IF r.batch[r.k].source # "saas.tasks" THEN EnterRecord([r EXCEPT !.k = @ + 1])
    ELSE IF r.batch[r.k].detail.kind = "null" THEN FanReturn(r, 500)
    ELSE EnterAnalytics([r EXCEPT !.detail = DetailOf(r.batch[r.k])])

IsNextFan(i) ==
    /\ fan[i].pc = "idle"
    /\ \A j \in Slots : j < i => fan[j].pc # "idle"

\* the platform invokes the handler with a batch
FanStart(i, batch) ==
    /\ IsNextFan(i)
    /\ fan' = [fan EXCEPT ![i] = EnterRecord([FanIdle EXCEPT !.batch = batch, !.k = 1])]
    /\ UNCHANGED <<table, clock, archive, world, taskVars, authVars>>

\* table.put_item(Item=analytics_item)
FanAnalytics(i) ==
    /\ fan[i].pc = "analytics"
    /\ table' = PutItem(table, AnalyticsItem(fan[i].detail))
    /\ fan' = [fan EXCEPT ![i] = [Called(fan[i], TRUE) EXCEPT !.pc = "metrics"]]
    /\ UNCHANGED <<clock, archive, world, taskVars, authVars>>

\* table.put_item(Item=metrics_item)
FanMetrics(i) ==
    /\ fan[i].pc = "metrics"
    /\ table' = PutItem(table, MetricsItem(fan[i].detail))
    /\ fan' = [fan EXCEPT ![i] = EnterNotify([Called(fan[i], TRUE) EXCEPT !.cur.analytics = "success"])]
    /\ UNCHANGED <<clock, archive, world, taskVars, authVars>>

\* datetime.utcnow() for the sort key, then table.put_item(Item=notification_item)
FanNotify(i) ==
    /\ fan[i].pc = "notify"
    /\ \E t \in Times :
          /\ clock' = t
          /\ table' = PutItem(table, NotificationItem(fan[i].detail, Iso(t)))
    /\ fan' = [fan EXCEPT ![i] = EnterAudit([Called(fan[i], TRUE) EXCEPT !.cur.notifications = "success"])]
    /\ UNCHANGED <<archive, world, taskVars, authVars>>

\* an audit step that ends with the store write
FanAudit_StoreOnly(i) ==
    /\ fan[i].pc = "audit"
    /\ table' = PutItem(table, AuditItem(fan[i].detail))
    /\ fan' = [fan EXCEPT ![i] = NextRecord([Called(fan[i], TRUE) EXCEPT !.cur.audit = "success"])]
    /\ UNCHANGED <<clock, archive, world, taskVars, authVars>>

\* table.put_item(Item=audit_item)
FanAudit(i) ==
    /\ fan[i].pc = "audit"
    /\ table' = PutItem(table, AuditItem(fan[i].detail))
    /\ fan' = [fan EXCEPT ![i] = [Called(fan[i], TRUE) EXCEPT !.pc = "archive"]]
    /\ UNCHANGED <<clock, archive, world, taskVars, authVars>>

\* s3.put_object(...)
FanArchive(i) ==
    /\ fan[i].pc = "archive"
    /\ archive' = PutObject(archive, AuditKey(fan[i].detail), AuditItem(fan[i].detail))
    /\ fan' = [fan EXCEPT ![i] = NextRecord([Called(fan[i], TRUE) EXCEPT !.cur.audit = "success"])]
    /\ UNCHANGED <<table, clock, world, taskVars, authVars>>

\* a handler without error containment: a call that raises ends the invocation
FanFails_Abort(i) ==
    /\ world.fails
    /\ fan[i].pc \in {"analytics", "metrics", "notify", "audit", "archive"}
    /\ fan' = [fan EXCEPT ![i] = FanReturn([Called(fan[i], FALSE) EXCEPT !.failures = @ + 1], 500)]
    /\ UNCHANGED <<table, clock, archive, world, taskVars, authVars>>

\* the store or the archive raises: the projection returns an error and the
\* handler goes on with the next projection
FanFails(i) ==
    /\ world.fails
    /\ fan[i].pc \in {"analytics", "metrics", "notify", "audit", "archive"}
    /\ LET r == [Called(fan[i], FALSE) EXCEPT !.failures = @ + 1]
       IN  fan' = [fan EXCEPT ![i] =
                      IF r.pc \in {"analytics", "metrics"}
                      THEN EnterNotify([r EXCEPT !.cur.analytics = "error"])
                      ELSE IF r.pc = "notify"
                      THEN EnterAudit([r EXCEPT !.cur.notifications = "error"])
                      ELSE NextRecord([r EXCEPT !.cur.audit = "error"])]
    /\ UNCHANGED <<table, clock, archive, world, taskVars, authVars>>

----------------------------------------------------------------------------
(* The authorizer: a token authorizer in front of the API *)

\* a claim set is a dict: Base and the claims that are present
Claim(k, v) == [x \in {k} |-> v]
Absent == <<>>
Base == Claim("sub", "alice") @@ Claim("email", "alice@acme.test")
Groups(g) == Claim("cognito:groups", g)
Role(r) == Claim("custom:role", r)
Tenant(t) == Claim("custom:tenant_id", t)

GroupNames == {"Administrators", "Members", "Auditors"}

ClaimSets ==
    {Base @@ g @@ r @@ Tenant("acme") :
        g \in {Absent} \cup {Groups(x) : x \in SUBSET GroupNames},
        r \in {Absent} \cup {Role(x) : x \in {"ADMIN", "MEMBER", "VIEWER"}}}
        \cup {Base @@ r : r \in {Absent, Role("ADMIN")}}
        \cup {Claim("email", "nobody@acme.test")}

\* the signing keys of the user pool by key id, and the key sets the JWKS
\* endpoint serves before and after a rotation
KeySets == {{"k1"}, {"k1", "k2"}, {"k2"}}

\* a token: whether its header decodes, the kid and alg of the header, the
\* key that made the signature, the exp claim (NoExp when absent), the claims
NoKid == ""
NoExp == -1

Jwt(kid, alg, signer, exp, claims) ==
    [wellformed |-> TRUE, kid |-> kid, alg |-> alg, signer |-> signer, exp |-> exp,
     claims |-> claims]

Garbage == [Jwt(NoKid, "", "", NoExp, <<>>) EXCEPT !.wellformed = FALSE]

Tokens ==
    {Jwt("k1", "RS256", "k1", NoExp, c) : c \in ClaimSets}
        \cup {Jwt("k1", "RS256", "k1", e, Base @@ Groups({"Members"}) @@ Tenant("acme")) : e \in 1..2}
        \cup { Jwt("k2", "RS256", "k2", 2, Base @@ Groups({"Administrators"}) @@ Tenant("acme")),
               Jwt("k1", "RS256", "forged", 2, Base @@ Groups({"Administrators"}) @@ Tenant("globex")),
               Jwt("k1", "none", "", 2, Base @@ Groups({"Administrators"}) @@ Tenant("globex")),
               Jwt(NoKid, "RS256", "k1", 2, Base @@ Groups({}) @@ Tenant("acme")),
               Garbage }

\* the authorizer's event: the Authorization header as scheme and token, and
\* the method ARN
MethodArn == "arn:aws:execute-api:us-east-1:1:api/prod/GET/tasks"

AuthEvent(scheme, jwt) ==
    [authorizationToken |-> [scheme |-> scheme, jwt |-> jwt], methodArn |-> MethodArn]

\* a request without the header: event.get('authorizationToken', '') is ''
NoHeader == AuthEvent("", Garbage)

AuthEvents ==
    {AuthEvent("Bearer ", t) : t \in Tokens}
        \cup {AuthEvent(sch, Jwt("k1", "RS256", "k1", NoExp, Base @@ Groups({"Administrators"}) @@ Tenant("acme"))) :
                 sch \in {"", "bearer ", "Basic "}}
        \cup {NoHeader}

\* the text of the header, the token being opaque text without blanks
HeaderText(h) == h.scheme \o "e30.e30.c2ln"

HasBearer(h) == BeginsWith(HeaderText(h), "Bearer ")

\* jwt.decode without signature verification
verify_token_Unsigned(tok, keys, fetchFails, at) ==
    IF ~tok.wellformed THEN [raised |-> "ValueError", claims |-> <<>>]
    ELSE IF fetchFails THEN [raised |-> "RequestException", claims |-> <<>>]
    ELSE IF tok.kid = NoKid THEN [raised |-> "KeyError", claims |-> <<>>]
    ELSE IF tok.kid \notin keys THEN [raised |-> "ValueError", claims |-> <<>>]
    ELSE IF tok.exp # NoExp /\ tok.exp <= at THEN [raised |-> "ValueError", claims |-> <<>>]
    ELSE [raised |-> "none", claims |-> tok.claims]

\* verify_token: the header, the key of its kid in the key set, then
\* jwt.decode with RS256 only, which checks the signature and then exp
verify_token(tok, keys, fetchFails, at) ==
    IF ~tok.wellformed THEN [raised |-> "ValueError", claims |-> <<>>]
    ELSE IF fetchFails THEN [raised |-> "RequestException", claims |-> <<>>]
    ELSE IF tok.kid = NoKid THEN [raised |-> "KeyError", claims |-> <<>>]
    ELSE IF tok.kid \notin keys THEN [raised |-> "ValueError", claims |-> <<>>]
    ELSE IF tok.alg # "RS256" THEN [raised |-> "ValueError", claims |-> <<>>]
    ELSE IF tok.signer # tok.kid THEN [raised |-> "ValueError", claims |-> <<>>]
    ELSE IF tok.exp # NoExp /\ tok.exp <= at THEN [raised |-> "ValueError", claims |-> <<>>]
    ELSE [raised |-> "none", claims |-> tok.claims]

\* the group checks in the other order
extract_tenant_context_MembersFirst(claims) ==
    LET cognito_groups == DictGet(claims, "cognito:groups", {})
    IN  [ tenant_id |-> DictGet(claims, "custom:tenant_id", "karachi-tech"),
          user_id |-> DictGet(claims, "sub", None),
          email |-> DictGet(claims, "email", ""),
          role |-> IF "Members" \in cognito_groups THEN "MEMBER"
                   ELSE IF "Administrators" \in cognito_groups THEN "ADMIN"
                   ELSE DictGet(claims, "custom:role", "MEMBER") ]

extract_tenant_context(claims) ==
    LET cognito_groups == DictGet(claims, "cognito:groups", {})
    IN  [ tenant_id |-> DictGet(claims, "custom:tenant_id", "karachi-tech"),
          user_id |-> DictGet(claims, "sub", None),
          email |-> DictGet(claims, "email", ""),
          role |-> IF "Administrators" \in cognito_groups THEN "ADMIN"
                   ELSE IF "Members" \in cognito_groups THEN "MEMBER"
                   ELSE DictGet(claims, "custom:role", "MEMBER") ]

\* generate_policy: the context map is attached when one is given
NoContext == <<>>

generate_policy(effect, resource, context) ==
    LET policy == [ principalId |-> IF context # NoContext THEN context.user_id ELSE "unknown",
                    effect |-> effect,
                    resource |-> resource ]
    IN  IF context # NoContext THEN [k \in {"context"} |-> context] @@ policy ELSE policy

\* the handler runs get_jwks when the header has the prefix and the token's
\* header decodes
NeedsKeys(event) ==
    HasBearer(event.authorizationToken) /\ event.authorizationToken.jwt.wellformed

\* handler: both except branches return the Deny policy
AuthPolicy(event, keys, fetchFails, at) ==
    LET h == event.authorizationToken
        v == verify_token(h.jwt, keys, fetchFails, at)
    IN  IF ~HasBearer(h) THEN generate_policy("Deny", event.methodArn, NoContext)
        ELSE IF v.raised # "none" THEN generate_policy("Deny", event.methodArn, NoContext)
        ELSE generate_policy("Allow", event.methodArn, extract_tenant_context(v.claims))

\* lru_cache(maxsize=1) on get_jwks: empty until a fetch has succeeded
NoJwks == [cached |-> FALSE, keys |-> {}]

NoAuth ==
    [ done |-> FALSE, event |-> NoHeader, at |-> 0, fetch |-> "none", keys |-> {},
      policy |-> generate_policy("Deny", "", NoContext) ]

Authorized(event, at, fetch, keys) ==
    [ done |-> TRUE, event |-> event, at |-> at, fetch |-> fetch, keys |-> keys,
      policy |-> AuthPolicy(event, keys, fetch = "failed", at) ]

\* an invocation that does not call the JWKS endpoint
Authorize(event, at) ==
    /\ ~NeedsKeys(event) \/ jwks.cached
    /\ auth' = Authorized(event, at, IF NeedsKeys(event) THEN "cached" ELSE "none",
                          IF NeedsKeys(event) THEN jwks.keys ELSE {})
    /\ UNCHANGED <<jwks, table, clock, world, taskVars, fanVars>>

\* a get_jwks without the cache: every invocation fetches
AuthorizeFetch_Always(event, at, served) ==
    /\ NeedsKeys(event)
    /\ jwks' = [cached |-> TRUE, keys |-> served]
    /\ auth' = Authorized(event, at, "fetched", served)
    /\ UNCHANGED <<table, clock, world, taskVars, fanVars>>

\* an invocation whose get_jwks fetches the key set the endpoint serves
AuthorizeFetch(event, at, served) ==
    /\ NeedsKeys(event) /\ ~jwks.cached
    /\ jwks' = [cached |-> TRUE, keys |-> served]
    /\ auth' = Authorized(event, at, "fetched", served)
    /\ UNCHANGED <<table, clock, world, taskVars, fanVars>>

\* an invocation whose get_jwks raises: nothing is cached
AuthorizeFetchFails(event, at) ==
    /\ NeedsKeys(event) /\ ~jwks.cached
    /\ auth' = Authorized(event, at, "failed", {})
    /\ UNCHANGED <<jwks, table, clock, world, taskVars, fanVars>>

\* the platform starts a new process: the cache is empty again
ColdStart ==
    /\ jwks.cached
    /\ jwks' = NoJwks
    /\ UNCHANGED <<auth, table, clock, world, taskVars, fanVars>>

----------------------------------------------------------------------------------------------------------------------------------------
(* The behaviours *)

ListShapes == { <<>>, [status |-> "DONE"] }

\* the cursors a client can send: those earlier responses carried, and junk
Cursors == {inv[j].cursor : j \in {k \in Slots : inv[k].cursor # <<>>}} \cup {Malformed}

\* a first page, or the same request again with a cursor as last_key
ListParams(shapes) ==
    shapes \cup {[last_key |-> k] @@ s : s \in shapes, k \in Cursors}

\* the ids a client puts in the path: those of tasks it has seen, and one
\* that names no task
UnknownId == "nope"
PathIds == usedIds \cup {UnknownId}

ShipV1 == [title |-> "Ship v1", priority |-> "HIGH"]
Done == [status |-> "DONE"]

\* a task as Create stored it at tick 0, or at tick n
Stored(c, body, task_id) == TaskItem(c, body, task_id, Iso(0))
StoredAt(c, body, task_id, n) == TaskItem(c, body, task_id, Iso(n))

\* three tasks of one tenant; uuid4 ids are in no relation to creation order
Backlog ==
    { StoredAt(Alice, ShipV1, "t1", 1),
      StoredAt(Bob, [title |-> "Fix bug"], "t2", 0),
      StoredAt(Alice, [title |-> "Write docs", status |-> "DONE"], "t3", 2) }

\* what the fan-out handler has stored for one event
Projections(e) ==
    {AnalyticsItem(e), MetricsItem(e), NotificationItem(e, Iso(1)), AuditItem(e)}

\* the task entities of a table
TasksIn(t) == {it \in t : DictGet(it, "entity_type", "") = "TASK"}

PageShapes ==
    { <<>>, [limit |-> "1"], [limit |-> "2"],
      [status |-> "OPEN", limit |-> "1"], [status |-> "DONE"] }

LimitShapes ==
    { [limit |-> "0"], [limit |-> "-1"], [limit |-> "abc"],
      [limit |-> "3"], [limit |-> "100"], [limit |-> "101"] }


\* Each behaviour starts from a table earlier Creates have left and has the
\* clients of one world: who calls, and what they send.
Worlds ==
    { [ name |-> "empty",
        table |-> {},
        callers |-> {Alice, Bob},
        creates |-> {Json(ShipV1)},
        updates |-> {Json(Done)},
        deletes |-> TRUE,
        lists |-> {} ],
      [ name |-> "tenants",
        table |-> {Stored(Alice, ShipV1, "t1"), Stored(Dave, ShipV1, "t2")},
        callers |-> {Dave, Erin},
        creates |-> {Json(ShipV1)},
        updates |-> {Json(Done), Malformed, NoBody},
        deletes |-> TRUE,
        lists |-> ListShapes ],
      [ name |-> "roles",
        table |-> {Stored(Bob, ShipV1, "t1"), Stored(Alice, ShipV1, "t2")},
        callers |-> {Alice, Bob, Carol},
        creates |-> {},
        updates |-> {Json(Done)},
        deletes |-> TRUE,
        lists |-> {} ],
      [ name |-> "create",
        table |-> {},
        callers |-> {Alice},
        creates |-> CreateBodies,
        updates |-> {},
        deletes |-> FALSE,
        lists |-> {} ],
      [ name |-> "lengths",
        table |-> {},
        callers |-> {Alice},
        creates |-> LongBodies,
        updates |-> {},
        deletes |-> FALSE,
        lists |-> {} ],
      [ name |-> "update",
        table |-> {Stored(Alice, ShipV1, "t1")},
        callers |-> {Alice},
        creates |-> {},
        updates |-> UpdateBodies,
        deletes |-> FALSE,
        lists |-> {} ],
      [ name |-> "pages",
        table |-> Backlog \cup Projections(EventDetail(StoredAt(Alice, ShipV1, "t1", 1))),
        callers |-> {Alice},
        creates |-> {},
        updates |-> {},
        deletes |-> FALSE,
        lists |-> PageShapes ],
      [ name |-> "limits",
        table |-> Backlog,
        callers |-> {Alice},
        creates |-> {},
        updates |-> {},
        deletes |-> FALSE,
        lists |-> LimitShapes ],
      [ name |-> "prefix",
        table |-> {},
        callers |-> {Alice},
        creates |-> {Json([title |-> "Fix bug", status |-> "DONE#1"])},
        updates |-> {},
        deletes |-> FALSE,
        lists |-> {[status |-> "DONE"]} ] }

Init ==
    /\ world \in Worlds
    /\ table = world.table
    /\ events = {EventDetail(it) : it \in TasksIn(world.table)}
    /\ clock = 0
    /\ usedIds = {it.task_id : it \in TasksIn(world.table)}
    /\ inv = [i \in Slots |-> Idle]
    /\ deleted = {}
    /\ created = {<<it.tenant_id, it.task_id>> : it \in TasksIn(world.table)}
    /\ jwks = NoJwks
    /\ auth = NoAuth
    /\ archive = {}
    /\ fan = [i \in Slots |-> FanIdle]

Next ==
    \/ \E i \in Slots, c \in world.callers, b \in world.creates : CreateStart(i, c, b)
    \/ \E i \in Slots : CreatePut(i)
    \/ \E i \in Slots : CreatePublish(i)
    \/ \E i \in Slots : CreatePublishFails(i)
    \/ \E i \in Slots, c \in world.callers, id \in PathIds, b \in world.updates : UpdateGet(i, c, id, b)
    \/ \E i \in Slots : UpdateBuild(i)
    \/ \E i \in Slots : UpdateWrite(i)
    \/ \E i \in Slots, c \in {x \in world.callers : world.deletes}, id \in PathIds : DeleteGet(i, c, id)
    \/ \E i \in Slots : DeleteDel(i)
    \/ \E i \in Slots, c \in world.callers, p \in ListParams(world.lists) : ListTasks(i, c, p)

Spec == Init /\ [][Next]_vars

\* The authorizer alone: no task handler runs.
AuthWorld ==
    [ name |-> "authorizer", table |-> {}, callers |-> {}, creates |-> {},
      updates |-> {}, deletes |-> FALSE, lists |-> {} ]

AuthInit ==
    /\ world = AuthWorld
    /\ table = {}
    /\ events = {}
    /\ clock = 0
    /\ usedIds = {}
    /\ inv = [i \in Slots |-> Idle]
    /\ deleted = {}
    /\ created = {}
    /\ jwks = NoJwks
    /\ auth = NoAuth
    /\ archive = {}
    /\ fan = [i \in Slots |-> FanIdle]

AuthNext ==
    \/ \E e \in AuthEvents, at \in 0..MaxClock : Authorize(e, at)
    \/ \E e \in AuthEvents, at \in 0..MaxClock, served \in KeySets : AuthorizeFetch(e, at, served)
    \/ \E e \in AuthEvents, at \in 0..MaxClock : AuthorizeFetchFails(e, at)
    \/ ColdStart

AuthSpec == AuthInit /\ [][AuthNext]_vars

\* The fan-out handler alone: the tasks are stored and their events published;
\* the bus delivers each event at least once, in batches.
E1 == EventDetail(StoredAt(Alice, ShipV1, "t1", 1))
E2 == EventDetail(StoredAt(Bob, [title |-> "Fix bug"], "t2", 0))
E3 == EventDetail(StoredAt(Dave, ShipV1, "t3", 0))

NullDetail == Record("saas.tasks", "null", <<>>)
NoDetail == Record("saas.tasks", "absent", <<>>)
NoTitle == TaskCreated([task_id |-> "t2", tenant_id |-> "acme", created_at |-> Iso(0)])
Foreign == Record("aws.s3", "dict", <<>>)
Extra == [priority |-> "HIGH", schema_version |-> "2"]

FanWorlds ==
    { [ name |-> "redelivery",
        table |-> {StoredAt(Alice, ShipV1, "t1", 1)},
        batches |-> {<<TaskCreated(E1)>>},
        fails |-> FALSE ],
      [ name |-> "tenant",
        table |-> {StoredAt(Alice, ShipV1, "t1", 1), StoredAt(Bob, [title |-> "Fix bug"], "t2", 0)},
        batches |-> {<<TaskCreated(E1)>>, <<TaskCreated(E2)>>, <<TaskCreated(E1), TaskCreated(E2)>>},
        fails |-> FALSE ],
      [ name |-> "tenants",
        table |-> {StoredAt(Alice, ShipV1, "t1", 1), StoredAt(Dave, ShipV1, "t3", 0)},
        batches |-> {<<TaskCreated(E1)>>, <<TaskCreated(E3)>>},
        fails |-> FALSE ],
      [ name |-> "malformed",
        table |-> {StoredAt(Alice, ShipV1, "t1", 1)},
        batches |-> { <<NullDetail, TaskCreated(E1)>>, <<TaskCreated(E1), NullDetail>>,
                      <<NoDetail, TaskCreated(E1)>>, <<NoTitle, Foreign>>, <<>> },
        fails |-> FALSE ],
      [ name |-> "failures",
        table |-> {StoredAt(Alice, ShipV1, "t1", 1)},
        batches |-> {<<TaskCreated(E1)>>},
        fails |-> TRUE ],
      [ name |-> "sources",
        table |-> {StoredAt(Alice, ShipV1, "t1", 1), StoredAt(Bob, [title |-> "Fix bug"], "t2", 0)},
        batches |-> { <<Record("aws.s3", "dict", E2), TaskCreated(E1 @@ Extra)>>,
                      <<TaskCreated(E1), Record("", "dict", E2)>>,
                      <<Record("saas.users", "dict", E2)>> },
        fails |-> FALSE ] }

FanInit ==
    /\ world \in FanWorlds
    /\ table = world.table
    /\ events = {EventDetail(it) : it \in TasksIn(world.table)}
    /\ clock = 0
    /\ usedIds = {it.task_id : it \in TasksIn(world.table)}
    /\ inv = [i \in Slots |-> Idle]
    /\ deleted = {}
    /\ created = {<<it.tenant_id, it.task_id>> : it \in TasksIn(world.table)}
    /\ jwks = NoJwks
    /\ auth = NoAuth
    /\ archive = {}
    /\ fan = [i \in Slots |-> FanIdle]

FanNext ==
    \/ \E i \in Slots, b \in world.batches : FanStart(i, b)
    \/ \E i \in Slots : FanAnalytics(i)
    \/ \E i \in Slots : FanMetrics(i)
    \/ \E i \in Slots : FanNotify(i)
    \/ \E i \in Slots : FanAudit(i)
    \/ \E i \in Slots : FanArchive(i)
    \/ \E i \in Slots : FanFails(i)

FanSpec == FanInit /\ [][FanNext]_vars

\* The task handlers and the fan-out handler over one table that already
\* holds the projections of a task: the handlers alone, with path ids that
\* spell the sort keys of projection records; the fan-out alone, with the
\* event delivered again and with calls that raise; and a Delete next to a
\* fan-out invocation.
StoreTable == {StoredAt(Alice, ShipV1, "t1", 1)} \cup Projections(E1)

Quiet ==
    [ table |-> StoreTable, callers |-> {}, creates |-> {}, updates |-> {},
      deletes |-> FALSE, lists |-> {}, ids |-> {}, batches |-> {}, fails |-> FALSE ]

StoreWorlds ==
    { [name |-> "handlers"] @@
      [ callers |-> {Alice}, creates |-> {Json(ShipV1)}, updates |-> {Json(Done)},
        deletes |-> TRUE, lists |-> {<<>>},
        ids |-> {"t1", AnalyticsItem(E1).SK, AuditItem(E1).SK} ] @@ Quiet,
      [name |-> "redelivery"] @@
      [ batches |-> {<<TaskCreated(E1)>>, <<TaskCreated(E2), TaskCreated(E1 @@ Extra)>>} ] @@ Quiet,
      [name |-> "failures"] @@
      [ batches |-> {<<TaskCreated(E1)>>}, fails |-> TRUE ] @@ Quiet,
      [name |-> "mixed"] @@
      [ callers |-> {Alice}, deletes |-> TRUE, ids |-> {NotificationItem(E1, Iso(1)).SK},
        batches |-> {<<TaskCreated(E1)>>} ] @@ Quiet }

StoreInit ==
    /\ world \in StoreWorlds
    /\ table = world.table
    /\ events = {EventDetail(it) : it \in TasksIn(world.table)}
    /\ clock = 0
    /\ usedIds = {it.task_id : it \in TasksIn(world.table)}
    /\ inv = [i \in Slots |-> Idle]
    /\ deleted = {}
    /\ created = {<<it.tenant_id, it.task_id>> : it \in TasksIn(world.table)}
    /\ jwks = NoJwks
    /\ auth = NoAuth
    /\ archive = {}
    /\ fan = [i \in Slots |-> FanIdle]

StoreNext ==
    \/ \E i \in Slots, c \in world.callers, b \in world.creates : CreateStart(i, c, b)
    \/ \E i \in Slots : CreatePut(i)
    \/ \E i \in Slots : CreatePublish(i)
    \/ \E i \in Slots : CreatePublishFails(i)
    \/ \E i \in Slots, c \in world.callers, id \in world.ids, b \in world.updates : UpdateGet(i, c, id, b)
    \/ \E i \in Slots : UpdateBuild(i)
    \/ \E i \in Slots : UpdateWrite(i)
    \/ \E i \in Slots, c \in {x \in world.callers : world.deletes}, id \in world.ids : DeleteGet(i, c, id)
    \/ \E i \in Slots : DeleteDel(i)
    \/ \E i \in Slots, c \in world.callers, p \in ListParams(world.lists) : ListTasks(i, c, p)
    \/ \E i \in Slots, b \in world.batches : FanStart(i, b)
    \/ \E i \in Slots : FanAnalytics(i)
    \/ \E i \in Slots : FanMetrics(i)
    \/ \E i \in Slots : FanNotify(i)
    \/ \E i \in Slots : FanAudit(i)
    \/ \E i \in Slots : FanArchive(i)
    \/ \E i \in Slots : FanFails(i)

StoreSpec == StoreInit /\ [][StoreNext]_vars

----------------------------------------------------------------------------
(* Vocabulary of the properties *)

Started(i) == inv[i].pc # "idle"
Finished(i) == inv[i].pc = "done"

\* the step is one of invocation i; it is the step that answers
Acts(i) == inv'[i] # inv[i]
Answers(i) == inv[i].pc # "done" /\ inv'[i].pc = "done"

\* the items the step stored, changed or removed
Touched == (table \ table') \cup (table' \ table)

\* the path id of r names a task that was created under another tenant
ForeignId(r, made) ==
    \E k \in made : k[2] = r.id /\ k[1] # r.caller.tenant_id

\* the response carries a task that was created under another tenant
ForeignTask(r, made) ==
    \E n \in 1..Len(r.out) :
        \E k \in made : k[2] = r.out[n].task_id /\ k[1] # r.caller.tenant_id

\* the item stored under the key the invocation addresses, if any
Target(r, t) == GetItem(t, "TENANT#" \o r.caller.tenant_id, "TASK#" \o r.id)

IsTask(it) == DictGet(it, "entity_type", "") = "TASK"

----------------------------------------------------------------------------
(* C1: tenant isolation *)

\* C1 as stated: no response under tenant B carries a task created under
\* tenant A, and every Update and Delete under B with the id of a task of A
\* answers 404.
C1_Stated ==
    \A i \in Slots :
        Finished(i) =>
            /\ ~ForeignTask(inv[i], created)
            /\ inv[i].op \in {"update", "delete"} /\ ForeignId(inv[i], created)
                  => inv[i].status = 404

\* C1 as amended: a step of an invocation under tenant B touches no item
\* outside B's partition; no response under B carries a task created under
\* tenant A; with the id of a task of A, Update answers 404 when its body is
\* JSON (400 when it is other text, 500 when there is none) and Delete answers
\* 404 to an ADMIN and 403 to any other role.
C1_StepIsolated ==
    \A i \in Slots :
        Acts(i) =>
            /\ \A it \in Touched : it.PK = "TENANT#" \o inv'[i].caller.tenant_id
            /\ Answers(i) =>
                  /\ ~ForeignTask(inv'[i], created')
                  /\ inv'[i].op = "update" /\ ForeignId(inv'[i], created')
                        => inv'[i].status = IF inv'[i].body.valid THEN 404
                                            ELSE IF inv'[i].body.present THEN 400 ELSE 500
                  /\ inv'[i].op = "delete" /\ ForeignId(inv'[i], created')
                        => inv'[i].status = IF inv'[i].caller.role = "ADMIN" THEN 404 ELSE 403

C1_TenantIsolation == [][C1_StepIsolated]_vars

\* an ADMIN of globex was answered 404 on the id of acme's task, a List under
\* globex returned globex's task only, and acme's task is still stored
C1_Witness ==
    /\ Stored(Alice, ShipV1, "t1") \in table
    /\ \E i \in Slots :
          /\ Finished(i) /\ inv[i].op \in {"update", "delete"}
          /\ inv[i].caller = Dave /\ inv[i].id = "t1" /\ inv[i].status = 404
    /\ \E j \in Slots :
          /\ Finished(j) /\ inv[j].op = "list" /\ inv[j].caller.tenant_id = "globex"
          /\ inv[j].status = 200 /\ Len(inv[j].out) = 1 /\ inv[j].out[1].task_id = "t2"

----------------------------------------------------------------------------
(* C2: the permission matrix *)

\* C2: on a task of the caller's tenant, a MEMBER's Update of a task it
\* created and an ADMIN's Update of any task are let through and answer 200;
\* a MEMBER's Update of a task another user created answers 403 and writes
\* nothing; a MEMBER's Delete answers 403 and removes nothing; an ADMIN's
\* Delete is let through and answers 200.
C2_StepPermitted ==
    \A i \in Slots :
        Acts(i) =>
            LET r == inv[i]
                n == inv'[i]
                c == n.caller
                owns(it) == DictGet(it, "created_by", NoOwner) = c.user_id
            IN  /\ \* the lookup of an Update with a body that parses
                   r.pc = "idle" /\ n.op = "update" /\ n.body.valid =>
                      \A it \in {x \in Target(n, table) : IsTask(x)} :
                          /\ c.role = "ADMIN" \/ (c.role = "MEMBER" /\ owns(it))
                                => n.pc = "build"
                          /\ c.role = "MEMBER" /\ ~owns(it)
                                => n.pc = "done" /\ n.status = 403 /\ table' = table
                \* the write of an Update that was let through
                /\ r.pc = "write" =>
                      \A it \in {x \in Target(n, table) : IsTask(x)} :
                          c.role = "ADMIN" \/ (c.role = "MEMBER" /\ owns(it))
                                => n.status = 200
                \* the lookup of a Delete
                /\ r.pc = "idle" /\ n.op = "delete" =>
                      \A it \in {x \in Target(n, table) : IsTask(x)} :
                          /\ c.role = "MEMBER"
                                => n.pc = "done" /\ n.status = 403 /\ table' = table
                          /\ c.role = "ADMIN" => n.pc = "del"
                \* the removal by a Delete that was let through
                /\ r.pc = "del" => n.status = 200 /\ Target(n, table') = {}

C2_PermissionMatrix == [][C2_StepPermitted]_vars

\* bob (MEMBER) has updated his own task with 200 and was refused with 403 on
\* alice's, which is unchanged
C2_Witness ==
    /\ Stored(Alice, ShipV1, "t2") \in table
    /\ \E i, j \in Slots :
          /\ Finished(i) /\ inv[i].op = "update" /\ inv[i].caller = Bob
          /\ inv[i].id = "t1" /\ inv[i].status = 200
          /\ Finished(j) /\ inv[j].op = "update" /\ inv[j].caller = Bob
          /\ inv[j].id = "t2" /\ inv[j].status = 403

----------------------------------------------------------------------------
(* C3: Update against the permission policy *)

\* C3: whenever Update has found the task, it refuses (403, nothing written)
\* exactly when the policy denies "update" to the caller's role, with
\* existing.created_by as the owner.
C3_UpdateFollowsPolicy ==
    \A i \in Slots :
        inv[i].op = "update" /\ inv[i].existing # NoItem =>
            LET c == inv[i].caller
                allowed == check_user_permissions(c.role, "update",
                              DictGet(inv[i].existing, "created_by", NoOwner), c.user_id)
            IN  IF allowed THEN inv[i].status # 403
                ELSE Finished(i) /\ inv[i].status = 403 /\ inv[i].writes = 0

----------------------------------------------------------------------------
(* C4: Delete is refused before any store access *)

\* C4: a Delete by a caller whose role is not ADMIN has answered 403 as soon
\* as it has taken a step, and has made no store read, write or delete.
C4_DeleteRefusedBeforeStore ==
    \A i \in Slots :
        inv[i].op = "delete" /\ inv[i].caller.role # "ADMIN" =>
            /\ Finished(i) /\ inv[i].status = 403
            /\ inv[i].reads = 0 /\ inv[i].writes = 0

\* bob (MEMBER) asked to delete his own stored task and was refused
C4_Witness ==
    \E i \in Slots :
        /\ inv[i].op = "delete" /\ inv[i].caller = Bob /\ inv[i].id = "t1"
        /\ Stored(Bob, ShipV1, "t1") \in table
        /\ inv[i].status = 403

----------------------------------------------------------------------------
(* C5: Update is a field-level merge *)

SameKey(a, b) == a.PK = b.PK /\ a.SK = b.SK

\* attribute f is the same in both items, or in neither
Kept(old, new, f) ==
    /\ f \in DOMAIN old <=> f \in DOMAIN new
    /\ f \in DOMAIN old => new[f] = old[f]

\* C5: the write of an Update that answers 200 leaves under the task's key an
\* item in which each of title, description, status, priority, assigned_to
\* has the body's value when the body carries it and the value stored before
\* the write when it does not; and no step changes task_id, tenant_id,
\* created_by or created_at of an item that stays stored.
C5_StepMerges ==
    /\ \A i \in Slots :
          Acts(i) /\ inv[i].pc = "write" /\ inv'[i].status = 200 =>
              LET body == inv[i].body.json
              IN  /\ Target(inv[i], table) # {} /\ Target(inv[i], table') # {}
                  /\ \A old \in Target(inv[i], table), new \in Target(inv[i], table') :
                        \A f \in {"title", "description", "status", "priority", "assigned_to"} :
                            IF f \in DOMAIN body
                            THEN f \in DOMAIN new /\ new[f] = body[f]
                            ELSE Kept(old, new, f)
    /\ \A old \in table, new \in table' :
          SameKey(old, new) =>
              \A f \in {"task_id", "tenant_id", "created_by", "created_at"} : Kept(old, new, f)

C5_FieldLevelMerge == [][C5_StepMerges]_vars

\* an Update whose body carried a title next to task_id, tenant_id, created_by
\* and created_at answered 200: the title is the body's, the rest is as Create
\* stored it
C5_Witness ==
    \E i \in Slots :
        /\ Finished(i) /\ inv[i].op = "update" /\ inv[i].status = 200
        /\ {"title", "task_id", "tenant_id", "created_by", "created_at"}
              \subseteq DOMAIN inv[i].body.json
        /\ \E it \in Target(inv[i], table) :
              /\ it.title = inv[i].body.json.title
              /\ it.task_id = "t1" /\ it.tenant_id = "acme" /\ it.created_by = "alice"
              /\ it.created_at = Iso(0) /\ it.priority = "HIGH"

----------------------------------------------------------------------------
(* C6: status and priority stay in their enumerations *)

\* C6: every item stored under a task key has its status among OPEN,
\* IN_PROGRESS, DONE, CANCELLED and its priority among LOW, MEDIUM, HIGH,
\* URGENT; a Create or Update that carries another value has answered 400
\* without writing.
C6_EnumsEnforced ==
    /\ \A it \in table :
          BeginsWith(it.SK, "TASK#") =>
              /\ "status" \in DOMAIN it
                    => it.status \in {"OPEN", "IN_PROGRESS", "DONE", "CANCELLED"}
              /\ "priority" \in DOMAIN it
                    => it.priority \in {"LOW", "MEDIUM", "HIGH", "URGENT"}
    /\ \A i \in Slots :
          /\ inv[i].op \in {"create", "update"} /\ inv[i].body.valid
          /\ \/ DictGet(inv[i].body.json, "status", "OPEN")
                   \notin {"OPEN", "IN_PROGRESS", "DONE", "CANCELLED"}
             \/ DictGet(inv[i].body.json, "priority", "MEDIUM")
                   \notin {"LOW", "MEDIUM", "HIGH", "URGENT"}
          => inv[i].writes = 0 /\ (Finished(i) => inv[i].status \in {400, 403, 404})

----------------------------------------------------------------------------
(* C7: the length limits of Create *)

\* C7: a Create whose title is longer than 200 characters or whose description
\* is longer than 1000 has answered 400 and written nothing; one whose title
\* has exactly 200 characters is not answered 400.
C7_LengthsEnforced ==
    \A i \in Slots :
        inv[i].op = "create" /\ inv[i].body.valid =>
            LET body == inv[i].body.json
            IN  /\ \/ Len(DictGet(body, "title", "")) > 200
                   \/ Len(DictGet(body, "description", "")) > 1000
                   => Finished(i) /\ inv[i].status = 400 /\ inv[i].writes = 0
                /\ Len(DictGet(body, "title", "")) = 200 => inv[i].status # 400

----------------------------------------------------------------------------
(* C8: a failed publish does not fail the Create *)

\* C8: a Create that has stored its task and has answered without its event
\* on the bus (put_events failed) has answered 201 with the created task.
C8_PublishFailureTolerated ==
    \A i \in Slots :
        /\ inv[i].op = "create" /\ Finished(i) /\ inv[i].writes > 0
        /\ EventDetail(inv[i].item) \notin events
        => inv[i].status = 201 /\ inv[i].out = <<ResponseTask(inv[i].item)>>

----------------------------------------------------------------------------
(* C9: hard delete *)

\* C9: no item is stored under a key for which a Delete has answered 200, and
\* a Delete that has answered 404 has written nothing.
C9_HardDelete ==
    /\ \A k \in deleted : GetItem(table, k[1], k[2]) = {}
    /\ \A i \in Slots :
          inv[i].op = "delete" /\ Finished(i) /\ inv[i].status = 404 => inv[i].writes = 0

----------------------------------------------------------------------------
(* C10: updated_at never moves backwards *)

\* C10: in every step, an item that stays stored under its key has an
\* updated_at that is not earlier than before the step.
C10_StepMonotonic ==
    \A old \in table, new \in table' :
        SameKey(old, new) /\ "updated_at" \in DOMAIN old /\ "updated_at" \in DOMAIN new
            => StrLeq(old.updated_at, new.updated_at)

C10_UpdatedAtMonotonic == [][C10_StepMonotonic]_vars

----------------------------------------------------------------------------
(* Vocabulary of the List properties *)

\* the response to a List of caller c with query parameters p over table t
FirstPage(c, p, t) == ListResult(Begin("list", c, "", NoBody, p), t)

\* the response to the same List with the cursor of response r as last_key
NextPage(r, t) ==
    ListResult(Begin("list", r.caller, "", NoBody, [last_key |-> r.cursor] @@ r.params), t)

\* the tasks a client collects from response r on by feeding each cursor back,
\* for at most the given number of further pages
RECURSIVE Collected(_, _, _)
Collected(r, t, pages) ==
    IF r.status # 200 \/ r.cursor = <<>> \/ pages = 0 THEN r.out
    ELSE r.out \o Collected(NextPage(r, t), t, pages - 1)

\* the task entities the key condition of the List selects, and all of them in
\* the order of the index
Selected(c, p, t) ==
    {it \in Matching(t, QueryIndex(p), TenantPK(c.tenant_id), QueryPrefix(p)) : IsTask(it)}

Listing(c, p, t) ==
    TasksOf(Descending(QueryIndex(p), Matching(t, QueryIndex(p), TenantPK(c.tenant_id), QueryPrefix(p))))

Range(seq) == {seq[n] : n \in 1..Len(seq)}

NoRepeats(seq) == \A m, n \in 1..Len(seq) : m # n => seq[m].task_id # seq[n].task_id

----------------------------------------------------------------------------
(* C11: pagination round trip *)

\* C11: over any table, a List that answers 200 and whose cursors are fed back
\* as last_key until none is returned collects every task entity its filter
\* selects exactly once (so the pages are pairwise disjoint); with limit 1 and
\* at least two such tasks the first page carries a cursor and the second page
\* holds the next task of the listing.
C11_PaginationRoundTrip ==
    \A c \in world.callers, p \in world.lists :
        LET first == FirstPage(c, p, table)
            all == Collected(first, table, Cardinality(table) + 1)
        IN  first.status = 200 =>
               /\ NoRepeats(all)
               /\ Range(all) = {ResponseTask(it) : it \in Selected(c, p, table)}
               /\ QueryLimit(p) = 1 /\ Cardinality(Selected(c, p, table)) >= 2
                     => /\ first.cursor # <<>>
                        /\ first.out = <<Listing(c, p, table)[1]>>
                        /\ NextPage(first, table).out = <<Listing(c, p, table)[2]>>

\* a List with limit 1 answered with a cursor, and the List that fed the cursor
\* back answered with another task
C11_Witness ==
    \E i, j \in Slots :
        /\ i < j
        /\ inv[i].op = "list" /\ inv[i].status = 200
        /\ "limit" \in DOMAIN inv[i].params /\ inv[i].params.limit = "1"
        /\ "last_key" \notin DOMAIN inv[i].params
        /\ inv[i].cursor # <<>>
        /\ inv[j].op = "list" /\ inv[j].status = 200
        /\ inv[j].params = [last_key |-> inv[i].cursor] @@ inv[i].params
        /\ Len(inv[i].out) = 1 /\ Len(inv[j].out) = 1
        /\ inv[j].out[1].task_id # inv[i].out[1].task_id

----------------------------------------------------------------------------
(* C12: the order of a List *)

\* the timestamp at the end of the secondary-index key of an item selected
\* with the given prefix
GsiTime(it, prefix) == SubSeq(it.GSI1SK, Len(prefix) + 1, Len(it.GSI1SK))

\* C12: the tasks of every List response without a status filter are in
\* non-increasing order of created_at, and the items a List with a status
\* filter selects come in non-increasing order of the timestamp of their
\* secondary-index key.
C12_MostRecentFirst ==
    /\ \A i \in Slots :
          /\ inv[i].op = "list" /\ Finished(i) /\ inv[i].status = 200
          /\ "status" \notin DOMAIN inv[i].params
          => \A n \in 1..(Len(inv[i].out) - 1) :
                StrLeq(inv[i].out[n + 1].created_at, inv[i].out[n].created_at)
    /\ \A c \in world.callers, p \in {q \in world.lists : "status" \in DOMAIN q} :
          LET seq == Descending("GSI1", Matching(table, "GSI1", TenantPK(c.tenant_id), QueryPrefix(p)))
          IN  \A n \in 1..(Len(seq) - 1) :
                 StrLeq(GsiTime(seq[n + 1], QueryPrefix(p)), GsiTime(seq[n], QueryPrefix(p)))

----------------------------------------------------------------------------
(* C13: what a List returns *)

\* the task entities of the tenant of caller c in table t
TenantTasks(c, t) == {it \in t : IsTask(it) /\ it.PK = TenantPK(c.tenant_id)}

\* C13: over any table, the pages of a List with status filter s hold exactly
\* the task entities of the caller's tenant whose status attribute equals s,
\* and the pages of a List without a filter hold exactly the task entities of
\* the caller's tenant.
C13_ListExact ==
    \A c \in world.callers, p \in world.lists :
        LET first == FirstPage(c, p, table)
            all == Collected(first, table, Cardinality(table) + 1)
            expected == IF "status" \in DOMAIN p
                        THEN {it \in TenantTasks(c, table) : it.status = p.status}
                        ELSE TenantTasks(c, table)
        IN  first.status = 200 => Range(all) = {ResponseTask(it) : it \in expected}

----------------------------------------------------------------------------
(* C14: the limit of a List *)

Min(a, b) == IF a < b THEN a ELSE b

\* C14: a finished first-page List whose limit parameter is absent or an
\* integer has answered 200 or 400 and carries at most min(limit, 100) tasks
\* (limit being 50 when absent), and the Limit it hands to the store is
\* min(limit, 100).
C14_LimitHonoured ==
    \A i \in Slots :
        LET p == inv[i].params
            limit == IF "limit" \in DOMAIN p THEN IntVal(p.limit) ELSE DefaultLimit
        IN  /\ inv[i].op = "list" /\ Finished(i)
            /\ "last_key" \notin DOMAIN p
            /\ "limit" \in DOMAIN p => IsIntText(p.limit)
            => /\ inv[i].status \in {200, 400}
               /\ QueryLimit(p) = Min(limit, LimitCap)
               /\ Len(inv[i].out) <= Min(limit, LimitCap)

----------------------------------------------------------------------------
(* C15: a last_key that does not decode *)

\* query parameters p without last_key
WithoutCursor(p) == [k \in DOMAIN p \ {"last_key"} |-> p[k]]

\* C15: a List whose last_key is not JSON is answered exactly as the same List
\* without last_key over the same table: same status, same tasks, same
\* pagination; that is 200 whenever its limit is absent or at least 1.
C15_StepIgnoresCursor ==
    \A i \in Slots :
        LET r == inv'[i]
            same == FirstPage(r.caller, WithoutCursor(r.params), table)
        IN  /\ Answers(i) /\ r.op = "list"
            /\ "last_key" \in DOMAIN r.params /\ ~r.params.last_key.valid
            => /\ r.status = same.status /\ r.out = same.out /\ r.cursor = same.cursor
               /\ \/ "limit" \notin DOMAIN r.params
                  \/ IsIntText(r.params.limit) /\ IntVal(r.params.limit) >= 1
                  => r.status = 200

C15_MalformedCursorIgnored == [][C15_StepIgnoresCursor]_vars

\* a List with a last_key that is not JSON was answered 200 with the first
\* page and a cursor
C15_Witness ==
    \E i \in Slots :
        /\ inv[i].op = "list" /\ Finished(i) /\ inv[i].status = 200
        /\ "last_key" \in DOMAIN inv[i].params /\ ~inv[i].params.last_key.valid
        /\ Len(inv[i].out) = 1 /\ inv[i].cursor # <<>>
        /\ inv[i].out[1] = Listing(inv[i].caller, WithoutCursor(inv[i].params), table)[1]

----------------------------------------------------------------------------
(* C16: the authorizer allows verified tokens only *)

\* C16: every authorizer invocation returns an Allow or a Deny policy; an
\* Allow policy was returned for a header with the Bearer prefix whose token
\* decodes, names a key id of the key set in use, is signed with RS256 by that
\* key and has not expired, the key set having been obtained; it carries a
\* context of exactly tenant_id, user_id, role and email. A Deny policy carries
\* no context.
C16_AllowOnlyVerified ==
    auth.done =>
        LET h == auth.event.authorizationToken
            tok == h.jwt
            policy == auth.policy
        IN  /\ policy.effect \in {"Allow", "Deny"}
            /\ policy.effect = "Allow" =>
                  /\ h.scheme = "Bearer "
                  /\ tok.wellformed
                  /\ auth.fetch \in {"cached", "fetched"}
                  /\ tok.kid \in auth.keys
                  /\ tok.alg = "RS256" /\ tok.signer = tok.kid
                  /\ tok.exp = NoExp \/ tok.exp > auth.at
                  /\ "context" \in DOMAIN policy
                  /\ DOMAIN policy.context = {"tenant_id", "user_id", "role", "email"}
            /\ policy.effect = "Deny" => "context" \notin DOMAIN policy

\* an Allow with its context, the key set coming from the cache
C16_Witness ==
    /\ auth.done /\ auth.policy.effect = "Allow" /\ auth.fetch = "cached"
    /\ auth.event.authorizationToken.jwt.exp = 2
    /\ auth.policy.context.tenant_id = "acme"

----------------------------------------------------------------------------
(* C17: the role of the context *)

\* C17: the role in the context of an Allow policy is ADMIN when the token's
\* groups hold "Administrators"; otherwise MEMBER when they hold "Members";
\* otherwise the custom role claim when there is one; otherwise MEMBER.
C17_RolePrecedence ==
    auth.done /\ auth.policy.effect = "Allow" =>
        LET claims == auth.event.authorizationToken.jwt.claims
            groups == IF "cognito:groups" \in DOMAIN claims THEN claims["cognito:groups"] ELSE {}
            role == auth.policy.context.role
        IN  /\ "Administrators" \in groups => role = "ADMIN"
            /\ "Administrators" \notin groups /\ "Members" \in groups => role = "MEMBER"
            /\ groups \cap {"Administrators", "Members"} = {} /\ "custom:role" \in DOMAIN claims
                  => role = claims["custom:role"]
            /\ groups \cap {"Administrators", "Members"} = {} /\ "custom:role" \notin DOMAIN claims
                  => role = "MEMBER"

\* a user in both groups whose custom role claim says VIEWER was made ADMIN
C17_Witness ==
    /\ auth.done /\ auth.policy.effect = "Allow"
    /\ LET claims == auth.event.authorizationToken.jwt.claims
       IN  /\ "cognito:groups" \in DOMAIN claims
           /\ {"Administrators", "Members"} \subseteq claims["cognito:groups"]
           /\ "custom:role" \in DOMAIN claims /\ claims["custom:role"] = "VIEWER"
    /\ auth.policy.context.role = "ADMIN"

----------------------------------------------------------------------------
(* Vocabulary of the fan-out properties *)

\* no fan-out invocation is under way; no store or archive call has raised
FanQuiet == \A i \in Slots : fan[i].pc \in {"idle", "done"}
NoFailures == \A i \in Slots : fan[i].failures = 0

\* the events some invocation has processed with its three projections done
Projected ==
    {e \in events :
        \E i \in Slots : \E n \in 1..Len(fan[i].processed_events) :
            LET res == fan[i].processed_events[n]
            IN  /\ res.task_id = e.task_id /\ res.tenant_id = e.tenant_id
                /\ res.analytics = "success" /\ res.notifications = "success"
                /\ res.audit = "success"}

\* the records of one kind the store holds for the task of event e
RecordsFor(e, kind) ==
    {it \in table :
        /\ DictGet(it, "entity_type", "") = kind
        /\ it.PK = "TENANT#" \o e.tenant_id
        /\ DictGet(it, IF kind = "AUDIT" THEN "resource_id" ELSE "task_id", "") = e.task_id}

ObjectsFor(e) ==
    {o \in archive : o.Body.resource_id = e.task_id /\ o.Body.tenant_id = e.tenant_id}

----------------------------------------------------------------------------
(* C18: one event, one record of each projection *)

\* C18: when no invocation is under way and no store or archive call has
\* raised, every published event that has been processed has exactly one
\* analytics record, one notification record and one audit record in the
\* store and one object in the archive.
C18_OneProjectionEach ==
    FanQuiet /\ NoFailures =>
        \A e \in Projected :
            /\ Cardinality(RecordsFor(e, "ANALYTICS")) = 1
            /\ Cardinality(RecordsFor(e, "NOTIFICATION")) = 1
            /\ Cardinality(RecordsFor(e, "AUDIT")) = 1
            /\ Cardinality(ObjectsFor(e)) = 1

----------------------------------------------------------------------------
(* C19: the metrics counter *)

\* C19: when no invocation is under way and no store or archive call has
\* raised, the metrics record of every tenant with n >= 1 processed events of
\* distinct tasks exists and has total_tasks = n.
C19_MetricsCount ==
    FanQuiet /\ NoFailures =>
        \A e \in Projected :
            LET n == Cardinality({x \in Projected : x.tenant_id = e.tenant_id})
                metrics == GetItem(table, "TENANT#" \o e.tenant_id, "METRICS#TASKS")
            IN  /\ metrics # {}
                /\ \A m \in metrics : m.total_tasks = n

----------------------------------------------------------------------------
(* C20: one bad record in a batch *)

\* the positions of the records of a batch the handler has to process: those
\* of source "saas.tasks" whose detail does not make the extraction raise
Sound(batch) ==
    {k \in 1..Len(batch) : batch[k].source = "saas.tasks" /\ batch[k].detail.kind # "null"}

Raising(batch) ==
    {k \in 1..Len(batch) : batch[k].source = "saas.tasks" /\ batch[k].detail.kind = "null"}

\* C20: a finished invocation whose batch holds a record that raises has
\* answered with results, one for every other "saas.tasks" record of the batch.
C20_RecordIsolation ==
    \A i \in Slots :
        fan[i].pc = "done" /\ Raising(fan[i].batch) # {} =>
            /\ "results" \in DOMAIN fan[i].response
            /\ Len(fan[i].processed_events) = Cardinality(Sound(fan[i].batch))

----------------------------------------------------------------------------
(* C21: records of other sources *)

\* the position in the batch of the n-th record the handler has to process
NthSound(batch, n) ==
    CHOOSE k \in Sound(batch) : Cardinality({j \in Sound(batch) : j <= k}) = n

\* the step is one of fan-out invocation i
FanActs(i) == fan'[i] # fan[i]

\* C21: a fan-out invocation writes to the store and to the archive only while
\* it works on a record of source "saas.tasks", and what it writes belongs to
\* the task of that record; the results it returns are those of the
\* "saas.tasks" records of the batch, in order, and none of any other record;
\* a "saas.tasks" record whose detail holds the event's fields, with or
\* without further fields, has its three projections done when no call raises.
C21_StepIgnoresOtherSources ==
    \A i \in Slots :
        FanActs(i) =>
            LET r == fan[i]
                d == DetailOf(r.batch[r.k])
            IN  /\ table' # table \/ archive' # archive =>
                      /\ r.k \in Sound(r.batch)
                      /\ \A it \in table' \ table :
                            /\ it.PK = "TENANT#" \o d.tenant_id
                            /\ DictGet(it, "task_id", DictGet(it, "resource_id", d.task_id)) = d.task_id
                      /\ \A o \in archive' \ archive : o.Body.resource_id = d.task_id
                /\ fan'[i].pc = "done" /\ fan'[i].response.statusCode = 200 =>
                      LET results == fan'[i].response.results
                          batch == fan'[i].batch
                      IN  /\ Len(results) = Cardinality(Sound(batch))
                          /\ \A n \in 1..Len(results) :
                                LET e == DetailOf(batch[NthSound(batch, n)])
                                IN  /\ results[n].task_id = DictGet(e, "task_id", None)
                                    /\ /\ fan'[i].failures = 0
                                       /\ {"task_id", "tenant_id", "title", "created_at"} \subseteq DOMAIN e
                                       => /\ results[n].analytics = "success"
                                          /\ results[n].notifications = "success"
                                          /\ results[n].audit = "success"

----------------------------------------------------------------------------
(* C22: the status of the audit step *)

\* the calls of one kind invocation r has made for the record at position k
CallsOf(r, k, op) == {m \in 1..Len(r.calls) : r.calls[m].k = k /\ r.calls[m].op = op}

Returned(r, k, op) == \E m \in CallsOf(r, k, op) : r.calls[m].ok

\* C22: for every record a fan-out invocation has processed, the audit status
\* is success or error, and it is success exactly when the put of the audit
\* record and the put of the archive object have both returned; for every
\* record the invocation has made each of the two calls at most once.
C22_AuditStatus ==
    \A i \in Slots :
        /\ \A n \in 1..Len(fan[i].processed_events) :
              LET k == NthSound(fan[i].batch, n)
                  res == fan[i].processed_events[n]
              IN  /\ res.audit \in {"success", "error"}
                  /\ res.audit = "success"
                        <=> Returned(fan[i], k, "audit") /\ Returned(fan[i], k, "archive")
        /\ \A k \in 1..Len(fan[i].batch) :
              /\ Cardinality(CallsOf(fan[i], k, "audit")) <= 1
              /\ Cardinality(CallsOf(fan[i], k, "archive")) <= 1

\* an audit step whose store write returned and whose archive write raised
\* has reported error
C22_Witness ==
    \E i \in Slots :
        /\ fan[i].pc = "done"
        /\ Len(fan[i].processed_events) = 1
        /\ fan[i].processed_events[1].audit = "error"
        /\ Returned(fan[i], 1, "audit")
        /\ \E m \in CallsOf(fan[i], 1, "archive") : ~fan[i].calls[m].ok
        /\ RecordsFor(E1, "AUDIT") # {} /\ ObjectsFor(E1) = {}

----------------------------------------------------------------------------
(* C23: the index key follows the status *)

UnderTaskKey(it) == BeginsWith(it.SK, "TASK#")

\* C23: in every reachable state every record under a task key has a status
\* exactly when it has a GSI1SK, and its GSI1SK is STATUS#<status>#<timestamp>
\* with its own status and one of the timestamps the handlers have drawn.
C23_IndexKeyFollowsStatus ==
    \A it \in table :
        UnderTaskKey(it) =>
            /\ "GSI1SK" \in DOMAIN it <=> "status" \in DOMAIN it
            /\ "GSI1SK" \in DOMAIN it =>
                  \E t \in 0..MaxClock : it.GSI1SK = StatusSK(it.status, Iso(t))

\* an Update has changed the status of a task that was created OPEN, and the
\* record's index key carries the new status
C23_Witness ==
    /\ world.name = "update"
    /\ \E i \in Slots :
          /\ inv[i].op = "update" /\ Finished(i) /\ inv[i].status = 200
          /\ inv[i].writes = 1
          /\ "status" \in DOMAIN inv[i].body.json
    /\ \E it \in table, t \in 1..MaxClock :
          /\ it.SK = TaskSK("t1") /\ it.status = "DONE"
          /\ it.GSI1SK = StatusSK("DONE", Iso(t))
          /\ it.created_at # Iso(t)

----------------------------------------------------------------------------
(* C24: the three projections are independent *)

\* the detail carries every key the three projections read
Complete(d) == {"tenant_id", "task_id", "created_at", "title"} \subseteq DOMAIN d

Raised(r, k, op) == \E m \in CallsOf(r, k, op) : ~r.calls[m].ok

\* C24: for every record a fan-out invocation has processed, each of the three
\* steps has a status, success or error; when the detail is complete the
\* invocation has called the store for the analytics record, for the
\* notification record and for the audit record, whichever of these calls
\* raised, and has called the archive when the audit put returned; when
\* neither the audit put nor the archive put raised, the audit record is in
\* the store and the object is in the archive, whatever the notification step
\* did. An invocation whose batch holds no record that raises answers 200 with
\* one result for each of its "saas.tasks" records.
C24_ProjectionsIndependent ==
    \A i \in Slots :
        /\ \A n \in 1..Len(fan[i].processed_events) :
              LET k == NthSound(fan[i].batch, n)
                  d == DetailOf(fan[i].batch[k])
                  res == fan[i].processed_events[n]
              IN  /\ {res.analytics, res.notifications, res.audit} \subseteq {"success", "error"}
                  /\ Complete(d) =>
                        /\ CallsOf(fan[i], k, "analytics") # {}
                        /\ CallsOf(fan[i], k, "notify") # {}
                        /\ CallsOf(fan[i], k, "audit") # {}
                        /\ Returned(fan[i], k, "audit") => CallsOf(fan[i], k, "archive") # {}
                        /\ ~Raised(fan[i], k, "audit") /\ ~Raised(fan[i], k, "archive") =>
                              /\ res.audit = "success"
                              /\ AuditItem(d) \in table
                              /\ \E o \in archive : o.Key = AuditKey(d)
        /\ fan[i].pc = "done" /\ Raising(fan[i].batch) = {} =>
              /\ fan[i].response.statusCode = 200
              /\ Len(fan[i].response.results) = Cardinality(Sound(fan[i].batch))

\* the notification put raised and the audit record and the archive object
\* were written all the same
C24_Witness ==
    \E i \in Slots :
        /\ fan[i].pc = "done"
        /\ Raised(fan[i], 1, "notify")
        /\ fan[i].response.statusCode = 200
        /\ fan[i].response.results[1].notifications = "error"
        /\ fan[i].response.results[1].analytics = "success"
        /\ fan[i].response.results[1].audit = "success"
        /\ AuditItem(E1) \in table
        /\ \E o \in archive : o.Key = AuditKey(E1)

----------------------------------------------------------------------------
(* C25: the discriminator *)

TaskAttributes == {"task_id", "tenant_id", "title", "created_by", "created_at"}

\* C25: in every reachable state every record of the store has an entity_type
\* and its sort key begins with that entity_type and "#"; every record under
\* a TASK# sort key has entity_type TASK and the attributes Create gives a task.
C25_Discriminator ==
    \A it \in table :
        /\ "entity_type" \in DOMAIN it
        /\ BeginsWith(it.SK, it.entity_type \o "#")
        /\ UnderTaskKey(it) => it.entity_type = "TASK" /\ TaskAttributes \subseteq DOMAIN it

----------------------------------------------------------------------------
(* C26: the projections are append-only *)

IsProjection(it) == DictGet(it, "entity_type", "") \in {"ANALYTICS", "NOTIFICATION", "AUDIT"}

\* C26: in every step of a task handler or of a fan-out invocation, every
\* analytics, notification and audit record of the store is in the store
\* after the step with the content it had.
C26_StepKeepsProjections == \A it \in table : IsProjection(it) => it \in table'

C26_ProjectionsAppendOnly == [][C26_StepKeepsProjections]_vars

\* a Delete whose path id spells the sort key of the notification record has
\* answered and a fan-out invocation has processed the event of the task
\* again: the records the store began with are there as they were
C26_Witness ==
    /\ Projections(E1) \subseteq table
    /\ \E i \in Slots : /\ inv[i].op = "delete" /\ Finished(i)
                        /\ inv[i].id = NotificationItem(E1, Iso(1)).SK
    /\ \E i \in Slots : fan[i].pc = "done" /\ Len(fan[i].processed_events) = 1
    /\ Cardinality(RecordsFor(E1, "NOTIFICATION")) = 2

----------------------------------------------------------------------------
(* C27: the key-set cache *)

\* C27: in every step, a key set that is cached stays as it is, or the
\* process ends and the cache with it; an invocation that runs while a key
\* set is cached makes no fetch, verifies against the cached set, and denies
\* a token whose kid is not in it, whatever the endpoint serves by then; an
\* invocation that needs keys while none is cached makes a fetch, and a fetch
\* that fails leaves the cache empty.
C27_StepKeepsCache ==
    /\ jwks.cached => jwks' = jwks \/ jwks' = NoJwks
    /\ jwks.cached /\ jwks'.cached /\ auth' # auth =>
          /\ auth'.fetch \in {"none", "cached"}
          /\ auth'.fetch = "cached" =>
                /\ auth'.keys = jwks.keys
                /\ auth'.event.authorizationToken.jwt.kid \notin jwks.keys
                      => auth'.policy.effect = "Deny"
    /\ ~jwks.cached /\ auth' # auth /\ NeedsKeys(auth'.event) =>
          /\ auth'.fetch \in {"fetched", "failed"}
          /\ auth'.fetch = "failed" => ~jwks'.cached /\ auth'.policy.effect = "Deny"
          /\ auth'.fetch = "fetched" => jwks'.cached /\ jwks'.keys = auth'.keys

C27_CachePopulatedOnce == [][C27_StepKeepsCache]_vars

\* with the key set {k1} cached, a token signed with the key k2 the issuer
\* rotated to has been denied without a fetch
C27_Witness ==
    /\ auth.done /\ auth.fetch = "cached"
    /\ jwks.cached /\ jwks.keys = {"k1"} /\ auth.keys = {"k1"}
    /\ auth.event.authorizationToken.scheme = "Bearer "
    /\ auth.event.authorizationToken.jwt.kid = "k2"
    /\ auth.event.authorizationToken.jwt.signer = "k2"
    /\ auth.event.authorizationToken.jwt.alg = "RS256"
    /\ auth.event.authorizationToken.jwt.exp > auth.at
    /\ auth.policy.effect = "Deny"

----------------------------------------------------------------------------
(* C28: a client error leaves the state as it was *)

\* the events an invocation's own item is the subject of
PublishedBy(r) ==
    IF r.op = "create" /\ r.item # NoItem
    THEN {e \in events : e.task_id = r.item.task_id /\ e.tenant_id = r.item.tenant_id}
    ELSE {}

\* C28: a Create, Update or Delete that has answered 400, 403 or 404 has made
\* no store write or delete and has published no event.
C28_ClientErrorWritesNothing ==
    \A i \in Slots :
        /\ inv[i].op \in {"create", "update", "delete"}
        /\ Finished(i)
        /\ inv[i].status \in {400, 403, 404}
        => inv[i].writes = 0 /\ PublishedBy(inv[i]) = {}

----------------------------------------------------------------------------
(* C29: the tenant of the context *)

\* C29: the token of an invocation that has answered Allow carries a tenant
\* claim, and the tenant_id of the context is that claim.
C29_TenantFromToken ==
    auth.done /\ auth.policy.effect = "Allow" =>
        LET claims == auth.event.authorizationToken.jwt.claims
        IN  /\ "custom:tenant_id" \in DOMAIN claims
            /\ auth.policy.context.tenant_id = claims["custom:tenant_id"]

====
